---------------------------- MODULE Spec2Model ----------------------------
(***************************************************************************)
(* Model of src/src/lib.rs: get_single_zone_test_building, the generator   *)
(* of a single-zone test building (one Space, one Surface, an optional     *)
(* window cut into it, optional heater, luminaire and infiltration).       *)
(*                                                                         *)
(* The function is followed stage by stage, one action per commented       *)
(* stage of the source; a panic! / failed assert! / unwrap() of an Err     *)
(* ends the call in pc = "panicked" and nothing is returned.               *)
(***************************************************************************)
EXTENDS Integers, Sequences, FiniteSets

(***************************************************************************)
(* Float.  `type Float = f64` (or f32 under the "float" feature): binary   *)
(* floating point, every operation rounded to nearest, ties to even.       *)
(* A Float is kept here as the integer  value * 2^FracBits ; it is         *)
(* representable when it has at most Prec significant bits.  Prec is 53    *)
(* for f64 and 24 for f32 and is bounded in the model.  FracBits is large  *)
(* enough that every quantity computed from the areas of 1 and more is on  *)
(* grid; below the grid unit, the smallest positive Float, a result        *)
(* underflows to 0 as it does below the smallest subnormal.                *)
(***************************************************************************)
Prec == 4

FracBits == Prec + 3

One == 2 ^ FracBits

RECURSIVE Bits(_)
Bits(n) == IF n = 0 THEN 0 ELSE 1 + Bits(n \div 2)

RECURSIVE ISqrt(_)
ISqrt(n) ==
    IF n < 2 THEN n
    ELSE LET s == 2 * ISqrt(n \div 4)
         IN  IF (s + 1) * (s + 1) <= n THEN s + 1 ELSE s

\* The Float nearest to the rational num/den (num >= 0, den > 0, in grid
\* units), ties to the even significand.
RoundRat(num, den) ==
    LET q    == num \div den
        k    == IF Bits(q) > Prec THEN Bits(q) - Prec ELSE 0
        unit == den * (2 ^ k)
        m    == num \div unit
        rem  == num - m * unit
        up   == (2 * rem > unit) \/ (2 * rem = unit /\ m % 2 = 1)
    IN  (IF up THEN m + 1 ELSE m) * (2 ^ k)

IsFloat(x) == x >= 0 /\ RoundRat(x, 1) = x

\* a * b and a / b on Floats (a >= 0, b > 0)
FMul(a, b) == RoundRat(a * b, One)

FDiv(a, b) == RoundRat(a * One, b)

\* Float::sqrt, correctly rounded: with lo the largest Float not above the
\* root and hi the next one, the root is nearer to hi exactly when
\* 4*a*One > (lo + hi)^2.
FSqrt(a) ==
    LET y  == a * One
        f  == ISqrt(y)
        k  == IF Bits(f) > Prec THEN Bits(f) - Prec ELSE 0
        lo == (f \div (2 ^ k)) * (2 ^ k)
        hi == lo + (2 ^ k)
        m  == lo \div (2 ^ k)
        up == (4 * y > (lo + hi) * (lo + hi))
              \/ (4 * y = (lo + hi) * (lo + hi) /\ m % 2 = 1)
    IN  IF up THEN hi ELSE lo

(***************************************************************************)
(* Inputs.  The areas, on which the code computes, are Floats (grid        *)
(* units).  The fields the code only compares with 0. and stores keep      *)
(* their own unit: zone_volume in m3, powers in W, thickness in mm,        *)
(* infiltration_rate in l/s, emmisivity in 1/100.                          *)
(***************************************************************************)
MaxLayers == 2

Concrete(thickness) == [kind |-> "Concrete", thickness |-> thickness]

Polyurethane(thickness) == [kind |-> "Polyurethane", thickness |-> thickness]

TestMat == {Concrete(200), Concrete(100), Polyurethane(20)}

ConstructionVals == UNION {[1..n -> TestMat] : n \in 0..MaxLayers}

\* every Float from 3.5 to 5
NormalAreas == {x \in ((7 * One) \div 2)..(5 * One) : IsFloat(x)}

\* -1 (the default sentinel), 0, the smallest positive Float (a quarter of
\* which rounds to 0), and the areas above
SurfaceAreaVals == {-One, 0, 1} \cup NormalAreas

\* -1, 0 (the default), 1, and the areas above
WindowAreaVals == {-One, 0, One} \cup NormalAreas

VolumeVals == {-1, 0, 40}

HeatingVals == {0, 1500}

LightingVals == {-1, 0, 100}

InfiltrationVals == {0, 5}

EmmisivityVals == {84, 90}

\* impl Default for SingleZoneTestBuildingOptions
Default ==
    [zone_volume       |-> -1,
     construction      |-> << >>,
     surface_area      |-> -One,
     window_area       |-> 0,
     heating_power     |-> 0,
     lighting_power    |-> 0,
     infiltration_rate |-> 0,
     emmisivity        |-> 84]

SingleZoneTestBuildingOptions ==
    [zone_volume       : VolumeVals,
     construction      : ConstructionVals,
     surface_area      : SurfaceAreaVals,
     window_area       : WindowAreaVals,
     heating_power     : HeatingVals,
     lighting_power    : LightingVals,
     infiltration_rate : InfiltrationVals,
     emmisivity        : EmmisivityVals]

(***************************************************************************)
(* State.  An Rc<T> is the identity of its allocation: a number, given out *)
(* in order; Rc::clone copies the number.  Option<T> is a sequence of      *)
(* length at most one.                                                     *)
(***************************************************************************)
VARIABLES
    options,         \* the argument of the call
    pc,              \* the stage the call is at
    model,           \* let mut model
    nextRc,          \* the next allocation
    space,           \* let space = model.add_space(..)        (Option<Rc>)
    concrete,        \* let concrete = model.add_substance(..) (Option<Rc>)
    polyurethane,    \* let polyurethane = ...                 (Option<Rc>)
    construction,    \* let construction = model.add_construction(..)
    p,               \* let mut p: Polygon3D                   (Option)
    window_polygon,  \* let mut window_polygon: Option<Polygon3D>
    result,          \* what the call returned                 (Option<model>)
    err              \* the panic that ended the call          (Option<message>)

vars == <<options, pc, model, nextRc, space, concrete, polyurethane,
          construction, p, window_polygon, result, err>>

\* SimpleModel::new
NewModel ==
    [spaces        |-> << >>,
     substances    |-> << >>,
     materials     |-> << >>,
     constructions |-> << >>,
     surfaces      |-> << >>,
     fenestrations |-> << >>,
     luminaires    |-> << >>,
     hvacs         |-> << >>]

Init ==
    /\ options \in SingleZoneTestBuildingOptions
    /\ pc = "space"
    /\ model = NewModel
    /\ nextRc = 1
    /\ space = << >>
    /\ concrete = << >>
    /\ polyurethane = << >>
    /\ construction = << >>
    /\ p = << >>
    /\ window_polygon = << >>
    /\ result = << >>
    /\ err = << >>

\* The messages of the three panic! and of an unwrap() of an Err.
ZoneVolumeMsg == "A positive zone_volume parameter is required (Float)"

SurfaceAreaMsg == "A positive surface_area option is needed (Float)"

WindowAreaMsg == "Win_area >= Surface_area"

UnwrapMsg == "called Result::unwrap() on an Err value"

\* panic!(msg), and the unwinding: the locals, the model among them, are
\* dropped and the call returns nothing.
Panic(msg) ==
    /\ pc' = "panicked"
    /\ err' = <<msg>>
    /\ model' = NewModel
    /\ space' = << >>
    /\ concrete' = << >>
    /\ polyurethane' = << >>
    /\ construction' = << >>
    /\ p' = << >>
    /\ window_polygon' = << >>
    /\ UNCHANGED <<options, nextRc, result>>

(***************************************************************************)
(* ADD THE SPACE, and the infiltration if needed                           *)
(***************************************************************************)
\* Mutant: the check lets a zone_volume of 0 through.
ZoneVolumeRejected_Negative == options.zone_volume < 0

\* if zone_volume <= 0.0 { panic!(..) }
ZoneVolumeRejected == options.zone_volume <= 0

PanicZoneVolume ==
    /\ pc = "space"
    /\ ZoneVolumeRejected
    /\ Panic(ZoneVolumeMsg)

\* Mutant: the infiltration is attached for a rate of 0 too.
NewSpace_InfiltrationAtZero ==
    [rc           |-> nextRc,
     name         |-> "Some space",
     volume       |-> options.zone_volume,
     infiltration |-> IF options.infiltration_rate >= 0
                      THEN <<options.infiltration_rate>>
                      ELSE << >>]

NewSpace ==
    [rc           |-> nextRc,
     name         |-> "Some space",
     volume       |-> options.zone_volume,
     infiltration |-> IF options.infiltration_rate > 0
                      THEN <<options.infiltration_rate>>
                      ELSE << >>]

AddSpace ==
    /\ pc = "space"
    /\ ~ZoneVolumeRejected
    /\ model' = [model EXCEPT !.spaces = Append(@, NewSpace)]
    /\ space' = <<nextRc>>
    /\ nextRc' = nextRc + 1
    /\ pc' = "substance"
    /\ UNCHANGED <<options, concrete, polyurethane, construction, p,
                   window_polygon, result, err>>

(***************************************************************************)
(* ADD THE SUBSTANCE: both substances are added, whatever the layers are   *)
(***************************************************************************)
ConcreteSubstance ==
    [rc                     |-> nextRc,
     name                   |-> "concrete",
     density                |-> 1700,
     specific_heat_capacity |-> 800,
     thermal_conductivity   |-> 8160,      \* 0.816, in 1/10000
     thermal_absorbtance    |-> options.emmisivity]

PolyurethaneSubstance ==
    [rc                     |-> nextRc + 1,
     name                   |-> "polyurethane",
     density                |-> 175,       \* 17.5, in 1/10
     specific_heat_capacity |-> 2400,
     thermal_conductivity   |-> 252,       \* 0.0252, in 1/10000
     thermal_absorbtance    |-> options.emmisivity]

AddSubstances ==
    /\ pc = "substance"
    /\ model' = [model EXCEPT
                   !.substances = @ \o <<ConcreteSubstance,
                                         PolyurethaneSubstance>>]
    /\ concrete' = <<nextRc>>
    /\ polyurethane' = <<nextRc + 1>>
    /\ nextRc' = nextRc + 2
    /\ pc' = "construction"
    /\ UNCHANGED <<options, space, construction, p, window_polygon, result, err>>

(***************************************************************************)
(* ADD THE MATERIAL AND CONSTRUCTION                                       *)
(***************************************************************************)
\* The substance a layer's match arm clones.
SubstanceOf(c) ==
    IF c.kind = "Concrete" THEN concrete[1] ELSE polyurethane[1]

\* Material::new(format!("Material {}", i), substance.clone(), *thickness),
\* then model.add_material: the i-th layer (from 0) gets allocation rc0 + i.
NewMaterial(i, c, rc0) ==
    [rc        |-> rc0 + i,
     name      |-> <<"Material", i>>,
     substance |-> SubstanceOf(c),
     thickness |-> c.thickness]

\* Mutant: the layers are taken from the last to the first.
Materials_Reversed(layers, rc0) ==
    [j \in 1..Len(layers) |->
        NewMaterial(j - 1, layers[Len(layers) + 1 - j], rc0)]

\* for (i, c) in options.construction.iter().enumerate()
Materials(layers, rc0) ==
    [j \in 1..Len(layers) |-> NewMaterial(j - 1, layers[j], rc0)]

NewConstruction(layers, rc0) ==
    [rc        |-> rc0 + Len(layers),
     name      |-> "the construction",
     materials |-> [j \in 1..Len(layers) |-> Materials(layers, rc0)[j].rc]]

AddConstruction ==
    /\ pc = "construction"
    /\ LET layers == options.construction
       IN  /\ model' = [model EXCEPT
                          !.materials = @ \o Materials(layers, nextRc),
                          !.constructions =
                              Append(@, NewConstruction(layers, nextRc))]
           /\ construction' = <<nextRc + Len(layers)>>
           /\ nextRc' = nextRc + Len(layers) + 1
    /\ pc' = "wall"
    /\ UNCHANGED <<options, space, concrete, polyurethane, p,
                   window_polygon, result, err>>

(***************************************************************************)
(* SURFACE GEOMETRY.  A Point3D is <<x, y, z>>; a Loop3D is its vertices   *)
(* in order; a Polygon3D is an outer loop and the holes cut into it.       *)
(***************************************************************************)
Point3D(x, y, z) == <<x, y, z>>

Polygon3D(loop) == [outer |-> loop, inner |-> << >>]

\* let l = (surface_area / 4.).sqrt();
HalfSide(area) == FSqrt(FDiv(area, 4 * One))

\* the four pushes of the wall's loop: 2l wide, 2l high, standing on z = 0
WallLoop(surface_area) ==
    LET l == HalfSide(surface_area)
    IN  << Point3D(-l, 0, 0),
           Point3D(l, 0, 0),
           Point3D(l, 0, FMul(l, 2 * One)),
           Point3D(-l, 0, FMul(l, 2 * One)) >>

\* the four pushes of the window's loop: 2l wide, from l/2 up to 3l/2
InnerLoop(window_area) ==
    LET l == HalfSide(window_area)
    IN  << Point3D(-l, 0, FDiv(l, 2 * One)),
           Point3D(l, 0, FDiv(l, 2 * One)),
           Point3D(l, 0, FDiv(FMul(3 * One, l), 2 * One)),
           Point3D(-l, 0, FDiv(FMul(3 * One, l), 2 * One)) >>

\* Twice the area a loop in the plane y = 0 encloses, in squared grid units
\* (the shoelace sum), exactly.
Shoelace(loop) ==
    LET n == Len(loop)
        term(i) == LET a == loop[i]
                       b == loop[(i % n) + 1]
                   IN  a[1] * b[3] - b[1] * a[3]
        RECURSIVE sum(_)
        sum(i) == IF i = 0 THEN 0 ELSE term(i) + sum(i - 1)
    IN  sum(n)

Abs(x) == IF x < 0 THEN -x ELSE x

LoopArea2(loop) == Abs(Shoelace(loop))

\* The checks of the geometry crate behind push, close, Polygon3D::new and
\* cut_hole, whose Err the code unwraps.  A loop must enclose an area; a
\* hole must lie inside the outer loop without touching it (here the outer
\* loop is a rectangle along the axes).
LoopOk(loop) == Len(loop) >= 3 /\ LoopArea2(loop) # 0

MinOf(S) == CHOOSE x \in S : \A y \in S : x <= y

MaxOf(S) == CHOOSE x \in S : \A y \in S : y <= x

Coords(loop, c) == {loop[i][c] : i \in 1..Len(loop)}

StrictlyInside(pt, loop) ==
    /\ Coords(loop, 2) = {pt[2]}
    /\ MinOf(Coords(loop, 1)) < pt[1] /\ pt[1] < MaxOf(Coords(loop, 1))
    /\ MinOf(Coords(loop, 3)) < pt[3] /\ pt[3] < MaxOf(Coords(loop, 3))

HoleOk(outer, hole) ==
    \A i \in 1..Len(hole) : StrictlyInside(hole[i], outer)

\* p.cut_hole(the_inner_loop.clone())
CutHole(polygon, hole) == [polygon EXCEPT !.inner = Append(@, hole)]

\* if surface_area <= 0.0 { panic!(..) }
SurfaceAreaRejected == options.surface_area <= 0

\* if options.window_area > 0.0 { ... }
WindowRequested == options.window_area > 0

\* Mutant: the check lets a window as large as the wall through.
WindowAreaRejected_Greater == options.window_area > options.surface_area

\* if options.window_area >= surface_area { panic!(..) }
WindowAreaRejected == options.window_area >= options.surface_area

PanicSurfaceArea ==
    /\ pc = "wall"
    /\ SurfaceAreaRejected
    /\ Panic(SurfaceAreaMsg)

WallGeometryPanic ==
    /\ pc = "wall"
    /\ ~SurfaceAreaRejected
    /\ ~LoopOk(WallLoop(options.surface_area))
    /\ Panic(UnwrapMsg)

BuildWall ==
    /\ pc = "wall"
    /\ ~SurfaceAreaRejected
    /\ LoopOk(WallLoop(options.surface_area))
    /\ p' = <<Polygon3D(WallLoop(options.surface_area))>>
    /\ pc' = "window"
    /\ UNCHANGED <<options, model, nextRc, space, concrete, polyurethane,
                   construction, window_polygon, result, err>>

\* if options.window_area > 0.0 { ... } is not entered
NoWindow ==
    /\ pc = "window"
    /\ ~WindowRequested
    /\ pc' = "surface"
    /\ UNCHANGED <<options, model, nextRc, space, concrete, polyurethane,
                   construction, p, window_polygon, result, err>>

PanicWindowArea ==
    /\ pc = "window"
    /\ WindowRequested
    /\ WindowAreaRejected
    /\ Panic(WindowAreaMsg)

WindowGeometryPanic ==
    /\ pc = "window"
    /\ WindowRequested
    /\ ~WindowAreaRejected
    /\ LET the_inner_loop == InnerLoop(options.window_area)
       IN  ~(LoopOk(the_inner_loop) /\ HoleOk(p[1].outer, the_inner_loop))
    /\ Panic(UnwrapMsg)

CutWindow ==
    /\ pc = "window"
    /\ WindowRequested
    /\ ~WindowAreaRejected
    /\ LET the_inner_loop == InnerLoop(options.window_area)
       IN  /\ LoopOk(the_inner_loop)
           /\ HoleOk(p[1].outer, the_inner_loop)
           /\ p' = <<CutHole(p[1], the_inner_loop)>>
           /\ window_polygon' = <<Polygon3D(the_inner_loop)>>
    /\ pc' = "surface"
    /\ UNCHANGED <<options, model, nextRc, space, concrete, polyurethane,
                   construction, result, err>>

(***************************************************************************)
(* ACTUAL SURFACES                                                         *)
(***************************************************************************)
\* Surface::new("Surface", p, Rc::clone(&construction)), then
\* set_front_boundary(Boundary::Space(Rc::clone(&space)))
NewSurface ==
    [rc             |-> nextRc,
     name           |-> "Surface",
     polygon        |-> p[1],
     construction   |-> construction[1],
     front_boundary |-> <<space[1]>>]

AddSurface ==
    /\ pc = "surface"
    /\ model' = [model EXCEPT !.surfaces = Append(@, NewSurface)]
    /\ nextRc' = nextRc + 1
    /\ p' = << >>                            \* moved into the Surface
    /\ pc' = "fenestration"
    /\ UNCHANGED <<options, space, concrete, polyurethane, construction,
                   window_polygon, result, err>>

\* Mutant: the boundary is a copy of the space, a new allocation.
NewFenestration_SpaceCopied ==
    [rc             |-> nextRc,
     name           |-> "window one",
     polygon        |-> window_polygon[1],
     construction   |-> construction[1],
     positions      |-> "Binary",
     type           |-> "Window",
     front_boundary |-> <<nextRc + 1>>]

\* Fenestration::new("window one", window_polygon, construction,
\* FenestrationPositions::Binary, FenestrationType::Window), then
\* set_front_boundary(Boundary::Space(Rc::clone(&space)))
NewFenestration ==
    [rc             |-> nextRc,
     name           |-> "window one",
     polygon        |-> window_polygon[1],
     construction   |-> construction[1],
     positions      |-> "Binary",
     type           |-> "Window",
     front_boundary |-> <<space[1]>>]

\* if let Some(window_polygon) = window_polygon { ... }
AddFenestration ==
    /\ pc = "fenestration"
    /\ IF window_polygon # << >>
       THEN /\ model' = [model EXCEPT
                           !.fenestrations = Append(@, NewFenestration)]
            /\ nextRc' = nextRc + 1
            /\ window_polygon' = << >>       \* moved into the Fenestration
       ELSE UNCHANGED <<model, nextRc, window_polygon>>
    /\ pc' = "heater"
    /\ UNCHANGED <<options, space, concrete, polyurethane, construction, p,
                   result, err>>

(***************************************************************************)
(* ADD HEATER, IF NEEDED.  add_heater asserts power > 0. (which holds at   *)
(* its only call), names the space model.spaces[0] as the target and       *)
(* reads power nowhere else.                                               *)
(***************************************************************************)
NewHeater ==
    [rc                |-> nextRc,
     name              |-> "some hvac",
     kind              |-> "ElectricHeater",
     max_heating_power |-> << >>,
     target_space      |-> <<model.spaces[1].rc>>]

AddHeater ==
    /\ pc = "heater"
    /\ IF options.heating_power > 0
       THEN /\ options.heating_power > 0                       \* assert!
            /\ model' = [model EXCEPT !.hvacs = Append(@, NewHeater)]
            /\ nextRc' = nextRc + 1
       ELSE UNCHANGED <<model, nextRc>>
    /\ pc' = "lights"
    /\ UNCHANGED <<options, space, concrete, polyurethane, construction, p,
                   window_polygon, result, err>>

(***************************************************************************)
(* ADD LIGHTS, IF NEEDED.  add_luminaire asserts power > 0., sets it as    *)
(* the max power and names model.spaces[0] as the target.                  *)
(***************************************************************************)
NewLuminaire ==
    [rc           |-> nextRc,
     name         |-> "the luminaire",
     max_power    |-> <<options.lighting_power>>,
     target_space |-> <<model.spaces[1].rc>>]

AddLights ==
    /\ pc = "lights"
    /\ IF options.lighting_power > 0
       THEN /\ options.lighting_power > 0                      \* assert!
            /\ model' = [model EXCEPT !.luminaires = Append(@, NewLuminaire)]
            /\ nextRc' = nextRc + 1
       ELSE UNCHANGED <<model, nextRc>>
    /\ pc' = "return"
    /\ UNCHANGED <<options, space, concrete, polyurethane, construction, p,
                   window_polygon, result, err>>

\* (model, header): the model is moved out to the caller.  The header, the
\* simulation-state table the model crate fills in, is left out.
Return ==
    /\ pc = "return"
    /\ result' = <<model>>
    /\ pc' = "done"
    /\ UNCHANGED <<options, model, nextRc, space, concrete, polyurethane,
                   construction, p, window_polygon, err>>

Next ==
    \/ PanicZoneVolume
    \/ AddSpace
    \/ AddSubstances
    \/ AddConstruction
    \/ PanicSurfaceArea
    \/ WallGeometryPanic
    \/ BuildWall
    \/ NoWindow
    \/ PanicWindowArea
    \/ WindowGeometryPanic
    \/ CutWindow
    \/ AddSurface
    \/ AddFenestration
    \/ AddHeater
    \/ AddLights
    \/ Return

Spec == Init /\ [][Next]_vars

(***************************************************************************)
(* Properties                                                              *)
(***************************************************************************)
\* Twice the area of a polygon: its outer loop less its holes.
RECURSIVE HolesArea2(_)
HolesArea2(inner) ==
    IF inner = << >> THEN 0
    ELSE LoopArea2(Head(inner)) + HolesArea2(Tail(inner))

PolygonArea2(polygon) == LoopArea2(polygon.outer) - HolesArea2(polygon.inner)

\* Twice an area option, in squared grid units.
Twice(area) == 2 * area * One

\* a equals b to within three units of Float rounding (3 * 2^-Prec of b):
\* the "floating-point epsilon" of an area 4*l*l got from l = sqrt(b / 4).
AreaEq(a, b) == Abs(a - b) * (2 ^ Prec) <= 3 * b

\* The call has returned a model.
Returned == pc = "done" /\ result # << >>

\* The configuration asks for a window smaller than the wall (and names
\* the layers of its construction, so that C5's case plays no part).
WindowFits ==
    /\ options.construction # << >>
    /\ options.zone_volume > 0
    /\ options.surface_area > 0
    /\ 0 < options.window_area
    /\ options.window_area < options.surface_area

\* The stages of a call that has not got past the option check of the wall
\* (of the window): from there the only way on is that check, and the only
\* end is the panic.
UpToWall == {"space", "substance", "construction", "wall", "panicked"}

UpToWindow == UpToWall \cup {"window"}

SoleSpace(m) == <<m.spaces[1].rc>>

\* C1: for every configuration with zone_volume > 0, surface_area > 0 and
\* 0 < window_area < surface_area the call succeeds (it never panics), and
\* in the model it returns the area of the Surface's polygon plus the area
\* of the Fenestration's polygon is the configured surface_area, to within
\* floating-point epsilon.
C1_AreasAddUpToSurfaceArea ==
    WindowFits =>
        /\ pc # "panicked"
        /\ Returned =>
             /\ Len(result[1].surfaces) = 1
             /\ Len(result[1].fenestrations) = 1
             /\ AreaEq(PolygonArea2(result[1].surfaces[1].polygon)
                         + PolygonArea2(result[1].fenestrations[1].polygon),
                       Twice(options.surface_area))

\* C2: in every returned model with 0 < window_area < surface_area the
\* Fenestration's polygon has area window_area and the Surface's polygon has
\* area surface_area - window_area; zone_volume = 40, surface_area = 4,
\* window_area = 1 gives one Space of volume 40, one Surface of area 3 and
\* one Fenestration of area 1.
C2_WindowHasTheConfiguredArea ==
    (Returned /\ WindowFits) =>
        /\ Len(result[1].spaces) = 1
        /\ result[1].spaces[1].volume = options.zone_volume
        /\ Len(result[1].surfaces) = 1
        /\ Len(result[1].fenestrations) = 1
        /\ AreaEq(PolygonArea2(result[1].fenestrations[1].polygon),
                  Twice(options.window_area))
        /\ AreaEq(PolygonArea2(result[1].surfaces[1].polygon),
                  Twice(options.surface_area - options.window_area))

\* C3: a call with zone_volume <= 0 or surface_area <= 0 fails: it ends in
\* the panic of the option check it fails, never returns a model, whole or
\* partial, and a configuration left at its defaults (-1) fails at once.
C3_NonPositiveVolumeOrAreaFails ==
    (options.zone_volume <= 0 \/ options.surface_area <= 0) =>
        /\ result = << >>
        /\ pc \in UpToWall
        /\ pc = "panicked" =>
             /\ model = NewModel
             /\ err = IF options.zone_volume <= 0
                      THEN <<ZoneVolumeMsg>> ELSE <<SurfaceAreaMsg>>
        /\ options = Default => pc \in {"space", "panicked"}

\* C3's case: the space, the substances and the construction were built,
\* and the call then panicked at the surface_area check.
C3_Witness ==
    /\ pc = "panicked"
    /\ options.zone_volume > 0
    /\ options.surface_area <= 0
    /\ err = <<SurfaceAreaMsg>>
    /\ result = << >>

\* C4: a call with window_area >= surface_area (surface_area > 0,
\* zone_volume > 0) fails and returns no model: no Surface and no
\* Fenestration is ever made of it, and where the wall itself is a sound
\* loop the call ends in the "Win_area >= Surface_area" panic.
C4_WindowNotSmallerThanSurfaceFails ==
    (/\ options.zone_volume > 0
     /\ options.surface_area > 0
     /\ options.window_area >= options.surface_area) =>
        /\ result = << >>
        /\ pc \in UpToWindow
        /\ model.surfaces = << >> /\ model.fenestrations = << >>
        /\ window_polygon = << >>
        /\ pc = "panicked" =>
             err = IF LoopOk(WallLoop(options.surface_area))
                   THEN <<WindowAreaMsg>> ELSE <<UnwrapMsg>>

\* C4's case: the window is exactly as large as a sound wall, and the call
\* has panicked.
C4_Witness ==
    /\ pc = "panicked"
    /\ options.zone_volume > 0
    /\ options.surface_area > 0
    /\ options.window_area = options.surface_area
    /\ err = <<WindowAreaMsg>>

\* C5: a call with an empty construction layer list fails; no returned
\* model has a Surface whose Construction has no Material.
C5_EmptyConstructionFails ==
    /\ options.construction = << >> => (pc # "done" /\ result = << >>)
    /\ Returned =>
         \A i \in 1..Len(result[1].surfaces) :
            \A j \in 1..Len(result[1].constructions) :
               result[1].constructions[j].rc
                     = result[1].surfaces[i].construction
                  => result[1].constructions[j].materials # << >>

\* C6: in every returned model (of a configuration that names its layers),
\* heating_power > 0 gives exactly one Heater, whose target is the sole
\* Space and whose max power is heating_power; heating_power = 0 gives none.
C6_HeaterHasTheConfiguredPower ==
    (Returned /\ options.construction # << >>) =>
        /\ options.heating_power > 0 =>
             /\ Len(result[1].hvacs) = 1
             /\ result[1].hvacs[1].target_space = SoleSpace(result[1])
             /\ result[1].hvacs[1].max_heating_power
                   = <<options.heating_power>>
        /\ options.heating_power = 0 => result[1].hvacs = << >>

\* The allocations of a model: no two entities are the same Rc.
AllRcs(m) ==
    LET rcs(seq) == {seq[i].rc : i \in 1..Len(seq)}
    IN  rcs(m.spaces) \cup rcs(m.substances) \cup rcs(m.materials)
          \cup rcs(m.constructions) \cup rcs(m.surfaces)
          \cup rcs(m.fenestrations) \cup rcs(m.luminaires) \cup rcs(m.hvacs)

EntityCount(m) ==
    Len(m.spaces) + Len(m.substances) + Len(m.materials)
      + Len(m.constructions) + Len(m.surfaces) + Len(m.fenestrations)
      + Len(m.luminaires) + Len(m.hvacs)

\* C7: every returned model has exactly one Space, exactly one Surface and
\* at most one Fenestration; the front boundary of the Surface and of the
\* Fenestration and the target of every Heater and Luminaire are that one
\* Space itself (the same allocation), and the Surface and the Fenestration
\* have the same Construction, the one the model holds.
C7_OneSpaceSharedByIdentity ==
    Returned =>
        LET m == result[1]
        IN  /\ Len(m.spaces) = 1
            /\ Len(m.surfaces) = 1
            /\ Len(m.fenestrations) <= 1
            /\ Cardinality(AllRcs(m)) = EntityCount(m)
            /\ m.surfaces[1].front_boundary = SoleSpace(m)
            /\ \A i \in 1..Len(m.fenestrations) :
                  /\ m.fenestrations[i].front_boundary = SoleSpace(m)
                  /\ m.fenestrations[i].construction
                        = m.surfaces[1].construction
            /\ \A i \in 1..Len(m.hvacs) :
                  m.hvacs[i].target_space = SoleSpace(m)
            /\ \A i \in 1..Len(m.luminaires) :
                  m.luminaires[i].target_space = SoleSpace(m)
            /\ Len(m.constructions) = 1
            /\ m.surfaces[1].construction = m.constructions[1].rc

\* C7's case: a model with a window, a heater and a luminaire was returned.
C7_Witness ==
    /\ Returned
    /\ Len(result[1].fenestrations) = 1
    /\ Len(result[1].hvacs) = 1
    /\ Len(result[1].luminaires) = 1

\* C8: in every returned model each optional feature is there exactly when
\* its option is > 0: the Space's constant infiltration, of the configured
\* rate; the Fenestration; the Luminaire, of max power lighting_power and
\* targeting the Space.  With the option at 0 (or below) it is absent.
C8_FeaturePresentIffOptionPositive ==
    Returned =>
        LET m == result[1]
        IN  /\ m.spaces[1].infiltration =
                  IF options.infiltration_rate > 0
                  THEN <<options.infiltration_rate>> ELSE << >>
            /\ Len(m.fenestrations) =
                  IF options.window_area > 0 THEN 1 ELSE 0
            /\ Len(m.luminaires) =
                  IF options.lighting_power > 0 THEN 1 ELSE 0
            /\ \A i \in 1..Len(m.luminaires) :
                  /\ m.luminaires[i].max_power = <<options.lighting_power>>
                  /\ m.luminaires[i].target_space = SoleSpace(m)

\* C8's case: infiltration and a window are on, the lights are off at 0.
C8_Witness ==
    /\ Returned
    /\ options.infiltration_rate > 0
    /\ options.window_area > 0
    /\ options.lighting_power = 0
    /\ result[1].luminaires = << >>
    /\ Len(result[1].fenestrations) = 1

\* The entity of a sequence with a given Rc.
Deref(seq, rc) == seq[CHOOSE i \in 1..Len(seq) : seq[i].rc = rc]

KindName(kind) == IF kind = "Concrete" THEN "concrete" ELSE "polyurethane"

\* C9: once the Construction is built it holds one Material per layer, in
\* the order of the layers (the i-th Material has the i-th layer's
\* thickness and a Substance of its kind), and the model holds no two
\* Substances of one kind, so Materials of one kind share one Substance.
C9_OneMaterialPerLayerOneSubstancePerKind ==
    model.constructions # << >> =>
        LET layers == options.construction
            mats   == model.constructions[1].materials
        IN  /\ Len(model.constructions) = 1
            /\ Len(mats) = Len(layers)
            /\ Len(model.materials) = Len(layers)
            /\ \A i \in 1..Len(mats) :
                  /\ \E j \in 1..Len(model.materials) :
                        model.materials[j].rc = mats[i]
                  /\ Deref(model.materials, mats[i]).thickness
                        = layers[i].thickness
                  /\ \E j \in 1..Len(model.substances) :
                        model.substances[j].rc
                           = Deref(model.materials, mats[i]).substance
                  /\ Deref(model.substances,
                           Deref(model.materials, mats[i]).substance).name
                        = KindName(layers[i].kind)
            /\ \A i, j \in 1..Len(model.substances) :
                  model.substances[i].name = model.substances[j].name
                     => i = j
            /\ \A i, j \in 1..Len(mats) :
                  layers[i].kind = layers[j].kind
                     => Deref(model.materials, mats[i]).substance
                           = Deref(model.materials, mats[j]).substance

\* C9's case: two layers of one kind and different thickness, in a
\* returned model.
C9_Witness ==
    /\ Returned
    /\ Len(options.construction) >= 2
    /\ options.construction[1].kind = options.construction[2].kind
    /\ options.construction[1].thickness # options.construction[2].thickness
    /\ model.constructions # << >>

\* C10: for every configuration with surface_area > 0 and
\* 0 < window_area < surface_area (zone_volume > 0), once the option checks
\* of the wall are passed both loops have sides of positive length, the
\* window's loop lies strictly inside the wall's, touching none of its
\* edges, and the call never ends in a geometry error.
C10_HoleStrictlyInsideWall ==
    WindowFits =>
        /\ err # <<UnwrapMsg>>
        /\ pc \notin UpToWall =>
             LET outer == WallLoop(options.surface_area)
                 hole  == InnerLoop(options.window_area)
             IN  /\ LoopArea2(outer) > 0
                 /\ LoopArea2(hole) > 0
                 /\ \A i \in 1..Len(hole) : StrictlyInside(hole[i], outer)

=============================================================================
